---- MODULE Spec2Model ----
(***************************************************************************)
(* Model of train_apex.py: the distributed training orchestration of      *)
(* FloWaveNet.  One process per rank runs the script; the save, loss, log  *)
(* and sample folders are shared by all ranks and survive from one launch  *)
(* of the script to the next.                                              *)
(*                                                                         *)
(* Losses are floats in the script; they are modelled by integers, which   *)
(* keep their order (NaN is outside the model).  The mean of an epoch's    *)
(* training loss is kept as the pair <<sum, count>>.                       *)
(***************************************************************************)
EXTENDS Integers, Sequences, FiniteSets, TLC

\* ------------------------------------------------------------- bounds
NumRanks == 2       \* WORLD_SIZE: the number of processes of one launch
TrainBatches == 2   \* len(train_loader): batches per rank and epoch
MaxEpochs == 3      \* the largest --epochs a launch is given
MaxRuns == 2        \* launches of the script against the same folders
LossBelow == 2      \* evaluation losses lie in InitTestLoss - LossBelow .. InitTestLoss
MaxBatchLoss == 1   \* the loss of one training batch lies in 1 .. MaxBatchLoss

\* -------------------------------------------------- program constants
InitTestLoss == 100 \* test_loss = 100.0
PrefixLen == 7      \* name = k[7:]
PathDigits == 9     \* checkpoint_step{:09d}.pth

Ranks == 0 .. (NumRanks - 1)
EvalLosses == (InitTestLoss - LossBelow) .. InitTestLoss
BatchLosses == 1 .. MaxBatchLoss

\* --------------------------------------------------------- state dicts
\* Parameter names are character sequences, so that k[7:] is computed.
ModulePrefix == <<"m", "o", "d", "u", "l", "e", ".">>

\* The parameter names of the bare Flowavenet (two stand for all of them).
ParamNames ==
    { <<"c", "o", "n", "v", ".", "w", "e", "i", "g", "h", "t">>,
      <<"c", "o", "n", "v", ".", "b", "i", "a", "s">> }

\* apex DistributedDataParallel keeps the network as self.module: the keys of
\* the wrapped model's state_dict carry the prefix "module.".
WrappedKeys == { ModulePrefix \o k : k \in ParamNames }

\* model.state_dict() of the wrapped model whose parameters are at version v
\* (the number of optimizer steps that produced them).
StateDict(keys, v) == [k \in keys |-> v]

\* k[7:]
StripKey(k) == SubSeq(k, PrefixLen + 1, Len(k))

\* new_state_dict[k[7:]] = v for every item of state_dict
StripModule(sd) ==
    [n \in { StripKey(k) : k \in DOMAIN sd } |->
        sd[CHOOSE k \in DOMAIN sd : StripKey(k) = n]]

\* model.load_state_dict(sd), strict: the parameters whose key is in sd are
\* copied; a missing or unexpected key raises RuntimeError.
LoadStateDict(w, sd) ==
    [ok |-> (DOMAIN sd = DOMAIN w),
     weights |-> [k \in DOMAIN w |-> IF k \in DOMAIN sd THEN sd[k] ELSE w[k]]]

\* ------------------------------------------------------ checkpoint path
RECURSIVE DecDigits(_)
DecDigits(n) == IF n < 10 THEN <<n>> ELSE Append(DecDigits(n \div 10), n % 10)

RECURSIVE ZeroPad(_, _)
ZeroPad(ds, width) == IF Len(ds) >= width THEN ds ELSE ZeroPad(<<0>> \o ds, width)

\* "checkpoint_step{:09d}.pth".format(global_step) in save_checkpoint
SavePath(step) == ZeroPad(DecDigits(step), PathDigits)

\* "checkpoint_step{:09d}.pth".format(step) in load_checkpoint
LoadPath(step) == ZeroPad(DecDigits(step), PathDigits)

\* ------------------------------------------------------------- helpers
MinOf(S) == CHOOSE m \in S : \A x \in S : m <= x

Range(s) == { s[i] : i \in 1 .. Len(s) }

IsPrefix(s, t) == Len(s) <= Len(t) /\ s = SubSeq(t, 1, Len(s))

\* l[:n] for n >= 0
Truncate(l, n) == SubSeq(l, 1, IF n < Len(l) THEN n ELSE Len(l))

\* epoch_loss / len(train_loader)
Mean(sum, count) == <<sum, count>>

NoFile == [exists |-> FALSE, data |-> <<>>]
FileOf(l) == [exists |-> TRUE, data |-> l]

\* dict-like update of a function
Put(f, k, v) == [x \in (DOMAIN f) \cup {k} |-> IF x = k THEN v ELSE f[x]]

EmptyMap == [x \in {} |-> 0]

OutputDirs == {"log", "save", "loss", "sample_path", "sample_path/model_name", "save/model_name"}

\* --------------------------------------------------------------- state
VARIABLES
    runs,           \* launches of the script so far
    args,           \* the command line of the current launch: load_step, epochs
    proc,           \* per rank: the process's variables and its position
    dirs,           \* the output directories that exist
    ckptFiles,      \* save/model_name: checkpoint path -> the dict torch.save wrote
    ckptSaved,      \* history: path -> the live values save_checkpoint was called on
    lossTrainFile,  \* loss/model_name_train.npy
    lossFile,       \* loss/model_name.npy
    logFile,        \* log/model_name.txt, one line per entry
    logBase,        \* history: the length of the log file at the current launch
    wavFiles        \* sample_path/model_name: the global_step of each sample written

vars == <<runs, args, proc, dirs, ckptFiles, ckptSaved, lossTrainFile, lossFile,
          logFile, logBase, wavFiles>>

disk == <<dirs, ckptFiles, ckptSaved, lossTrainFile, lossFile, logFile, wavFiles>>

\* The gradient buffer of a rank: the batch (global_step) it belongs to and how
\* far it has been processed.
NoGrad == [batch |-> 0, stage |-> "none"]

\* A process as the interpreter starts it.  The fields after `grad` are history:
\* ops, the calls of the current batch; events, the calls of the current epoch;
\* io, the persistent outputs of the current run; trained, the epochs train()
\* was called for; gates, the outcome of the checkpoint gate per epoch.
ProcStart ==
    [pc |-> "setup", epoch |-> 0, global_step |-> 0, global_epoch |-> 0,
     batch_idx |-> 0, epoch_loss |-> 0, loss |-> 0,
     training_epoch_loss |-> Mean(0, 1), test_epoch_loss |-> 0, test_loss |-> 0,
     list_train_loss |-> <<>>, list_loss |-> <<>>,
     weights |-> StateDict(WrappedKeys, 0), optimizer |-> 0, scheduler |-> 0,
     grad |-> NoGrad, range_next |-> 0, range_stop |-> 0,
     ops |-> <<>>, events |-> <<>>, io |-> {}, trained |-> <<>>, gates |-> <<>>,
     stepped |-> <<>>, fellBack |-> FALSE, fallbackKeys |-> {},
     test_loss0 |-> 0, histBase |-> 0]

Stopped(p) == p.pc \in {"idle", "done", "crashed"}

Set(r, p) == proc' = [proc EXCEPT ![r] = p]

Init ==
    /\ runs = 0
    /\ args = [load_step |-> 0, epochs |-> 0]
    /\ proc = [r \in Ranks |-> [ProcStart EXCEPT !.pc = "idle"]]
    /\ dirs = {}
    /\ ckptFiles = EmptyMap
    /\ ckptSaved = EmptyMap
    /\ lossTrainFile = NoFile
    /\ lossFile = NoFile
    /\ logFile = <<>>
    /\ logBase = 0
    /\ wavFiles = {}

\* ------------------------------------------------------------- launch
\* python -m torch.distributed.launch --nproc_per_node=NumRanks train_apex.py
\*   --load_step load_step --epochs epochs
\* starts one process per rank with the same arguments.  A load_step whose
\* checkpoint file does not exist ends in torch.load's FileNotFoundError and is
\* not launched here.
Launch(load_step, epochs) ==
    /\ runs < MaxRuns
    /\ \A r \in Ranks : Stopped(proc[r])
    /\ load_step = 0 \/ LoadPath(load_step) \in DOMAIN ckptFiles
    /\ runs' = runs + 1
    /\ args' = [load_step |-> load_step, epochs |-> epochs]
    /\ proc' = [r \in Ranks |-> ProcStart]
    /\ logBase' = Len(logFile)
    /\ UNCHANGED disk

\* if args.local_rank == 0: os.makedirs(...) for every output folder
MakesDirs(r) == r = 0

Setup(r) ==
    /\ proc[r].pc = "setup"
    /\ IF MakesDirs(r)
       THEN /\ dirs' = dirs \cup OutputDirs
            /\ Set(r, [proc[r] EXCEPT !.pc = "build", !.io = @ \cup {"makedirs"}])
       ELSE /\ dirs' = dirs
            /\ Set(r, [proc[r] EXCEPT !.pc = "build"])
    /\ UNCHANGED <<runs, args, ckptFiles, ckptSaved, lossTrainFile, lossFile,
                   logFile, logBase, wavFiles>>

\* build_model, Adam, StepLR, amp.initialize, DistributedDataParallel(model),
\* global_step = 0, global_epoch = 0
Build(r) ==
    /\ proc[r].pc = "build"
    /\ Set(r, [proc[r] EXCEPT !.pc = "resume",
                              !.weights = StateDict(WrappedKeys, 0),
                              !.optimizer = 0, !.scheduler = 0,
                              !.global_step = 0, !.global_epoch = 0])
    /\ UNCHANGED <<runs, args, logBase>>
    /\ UNCHANGED disk

\* ------------------------------------------------------------- resume
\* load_checkpoint(step, model, optimizer, scheduler): the process p after the
\* call.  The first load_state_dict is tried on the checkpoint's own keys; on
\* RuntimeError every key loses its first seven characters and the load is
\* tried again; a second RuntimeError is not caught and ends the process.
LoadCheckpoint(p, step) ==
    LET checkpoint == ckptFiles[LoadPath(step)]
        first == LoadStateDict(p.weights, checkpoint.state_dict)
        new_state_dict == StripModule(checkpoint.state_dict)
        second == LoadStateDict(first.weights, new_state_dict)
    IN  IF first.ok
        THEN [p EXCEPT !.pc = "history",
                       !.weights = first.weights,
                       !.optimizer = checkpoint.optimizer,
                       !.scheduler = checkpoint.scheduler,
                       !.global_step = checkpoint.global_step,
                       !.global_epoch = checkpoint.global_epoch]
        ELSE IF second.ok
        THEN [p EXCEPT !.pc = "history",
                       !.fellBack = TRUE,
                       !.fallbackKeys = DOMAIN new_state_dict,
                       !.weights = second.weights,
                       !.optimizer = checkpoint.optimizer,
                       !.scheduler = checkpoint.scheduler,
                       !.global_step = checkpoint.global_step,
                       !.global_epoch = checkpoint.global_epoch]
        ELSE [p EXCEPT !.pc = "crashed",
                       !.fellBack = TRUE,
                       !.fallbackKeys = DOMAIN new_state_dict,
                       !.weights = second.weights]

\* Mutant: the epoch loop starts over.
EpochRangeFromOne(global_epoch, epochs) == [first |-> 1, stop |-> epochs + 1]

\* range(global_epoch + 1, args.epochs + 1)
EpochRange(global_epoch, epochs) == [first |-> global_epoch + 1, stop |-> epochs + 1]

\* if args.load_step == 0: empty histories and test_loss = 100.0;
\* else: load_checkpoint(args.load_step, ...)
Resume(r) ==
    /\ proc[r].pc = "resume"
    /\ IF args.load_step = 0
       THEN Set(r, [proc[r] EXCEPT !.pc = "loop",
                                   !.list_train_loss = <<>>,
                                   !.list_loss = <<>>,
                                   !.test_loss = InitTestLoss,
                                   !.test_loss0 = InitTestLoss,
                                   !.histBase = 0,
                                   !.range_next =
                                       EpochRange(proc[r].global_epoch, args.epochs).first,
                                   !.range_stop =
                                       EpochRange(proc[r].global_epoch, args.epochs).stop])
       ELSE Set(r, LoadCheckpoint(proc[r], args.load_step))
    /\ UNCHANGED <<runs, args, logBase>>
    /\ UNCHANGED disk

\* np.load of both histories, [:global_epoch] of each, test_loss = np.min(list_loss).
\* A missing file (FileNotFoundError) or an empty list_loss (np.min raises
\* ValueError) ends the process.
LoadHistory(p) ==
    LET list_train_loss == Truncate(lossTrainFile.data, p.global_epoch)
        list_loss == Truncate(lossFile.data, p.global_epoch)
    IN  IF ~lossTrainFile.exists \/ ~lossFile.exists \/ list_loss = <<>>
        THEN [p EXCEPT !.pc = "crashed"]
        ELSE [p EXCEPT !.pc = "loop",
                       !.list_train_loss = list_train_loss,
                       !.list_loss = list_loss,
                       !.test_loss = MinOf(Range(list_loss)),
                       !.test_loss0 = MinOf(Range(list_loss)),
                       !.histBase = Len(list_loss),
                       !.range_next = EpochRange(p.global_epoch, args.epochs).first,
                       !.range_stop = EpochRange(p.global_epoch, args.epochs).stop]

History(r) ==
    /\ proc[r].pc = "history"
    /\ Set(r, LoadHistory(proc[r]))
    /\ UNCHANGED <<runs, args, logBase>>
    /\ UNCHANGED disk

\* ---------------------------------------------------------- epoch loop
\* for epoch in range(...): the next value of the loop variable, and the head of
\* train(): set_epoch, model.train(), zeroed sums.
LoopHead(r) ==
    /\ proc[r].pc = "loop"
    /\ IF proc[r].range_next < proc[r].range_stop
       THEN Set(r, [proc[r] EXCEPT !.pc = "batch",
                                   !.epoch = proc[r].range_next,
                                   !.range_next = @ + 1,
                                   !.batch_idx = 0,
                                   !.epoch_loss = 0,
                                   !.events = <<>>,
                                   !.ops = <<>>,
                                   !.trained = Append(@, proc[r].range_next)])
       ELSE Set(r, [proc[r] EXCEPT !.pc = "done"])
    /\ UNCHANGED <<runs, args, logBase>>
    /\ UNCHANGED disk

\* -------------------------------------------------------------- train
\* scheduler.step()
SchedulerStep(p) == [p EXCEPT !.scheduler = @ + 1, !.ops = Append(@, "scheduler.step")]

\* Mutant: the step counter advances by two.
NextGlobalStepByTwo(g) == g + 2

\* global_step += 1
NextGlobalStep(g) == g + 1

\* optimizer.zero_grad()
ZeroGrad(p) ==
    [p EXCEPT !.grad = [batch |-> p.global_step, stage |-> "zero"],
              !.ops = Append(@, "zero_grad")]

\* log_p, logdet = model(x, c); loss = -(log_p + logdet)
Forward(p, l) == [p EXCEPT !.loss = l, !.ops = Append(@, "forward")]

\* with amp.scale_loss(loss, optimizer) as scaled_loss: scaled_loss.backward()
\* The gradients are added to the buffer and averaged over all ranks.
Backward(p) ==
    [p EXCEPT !.grad = [batch |-> p.global_step,
                        stage |-> IF p.grad.stage = "zero" /\ p.grad.batch = p.global_step
                                  THEN "synced" ELSE "accumulated"],
              !.ops = Append(@, "backward")]

\* nn.utils.clip_grad_norm_(amp.master_params(optimizer), 1.)
ClipGradNorm(p) ==
    [p EXCEPT !.grad = [@ EXCEPT !.stage = IF @ = "synced" THEN "clipped" ELSE @],
              !.ops = Append(@, "clip_grad_norm_")]

\* optimizer.step(): the parameters move by the gradient buffer as it is
OptimizerStep(p) ==
    [p EXCEPT !.optimizer = @ + 1,
              !.weights = [k \in DOMAIN p.weights |-> p.weights[k] + 1],
              !.stepped = p.grad,
              !.ops = Append(@, "optimizer.step")]

\* The iteration up to the backward pass.
BeforeBackward(p, l) ==
    Forward(ZeroGrad([SchedulerStep(p) EXCEPT !.global_step = NextGlobalStep(@)]), l)

\* Mutant: the optimizer steps before the gradients are clipped.
StepBeforeClip(p) == ClipGradNorm(OptimizerStep(p))

\* The iteration after the backward pass.
AfterBackward(p) == OptimizerStep(ClipGradNorm(p))

TrainForward(r) ==
    /\ proc[r].pc = "batch"
    /\ proc[r].batch_idx < TrainBatches
    /\ \E l \in BatchLosses :
          Set(r, [BeforeBackward([proc[r] EXCEPT !.ops = <<>>], l) EXCEPT !.pc = "backward"])
    /\ UNCHANGED <<runs, args, logBase>>
    /\ UNCHANGED disk

\* Mutant: a backward pass completes without the other ranks.
AnyJoined == \E r \in Ranks : proc[r].pc = "backward"

\* The all-reduce of a backward pass completes once every rank has entered it.
AllJoined == \A r \in Ranks : proc[r].pc = "backward"

AllReduce ==
    /\ AllJoined
    /\ proc' = [r \in Ranks |->
                  IF proc[r].pc = "backward"
                  THEN [Backward(proc[r]) EXCEPT !.pc = "update"]
                  ELSE proc[r]]
    /\ UNCHANGED <<runs, args, logBase>>
    /\ UNCHANGED disk

\* clip, optimizer.step(), epoch_loss += loss.item(), del loss, and the end of
\* the loop body
TrainUpdate(r) ==
    /\ proc[r].pc = "update"
    /\ Set(r, [AfterBackward(proc[r]) EXCEPT !.pc = "batch",
                                             !.epoch_loss = @ + proc[r].loss,
                                             !.loss = 0,
                                             !.batch_idx = @ + 1])
    /\ UNCHANGED <<runs, args, logBase>>
    /\ UNCHANGED disk

\* Mutant: the rank gate lets rank 1 through.
SkipsEvaluationAboveOne(r) == r > 1

\* if args.local_rank > 0: continue
SkipsEvaluation(r) == r > 0

\* return epoch_loss / len(train_loader), which ends train()'s local epoch_loss,
\* and the rank gate of the epoch loop
TrainEnd(r) ==
    /\ proc[r].pc = "batch"
    /\ proc[r].batch_idx >= TrainBatches
    /\ Set(r, [proc[r] EXCEPT !.pc = IF SkipsEvaluation(r) THEN "loop" ELSE "evaluate",
                              !.training_epoch_loss = Mean(proc[r].epoch_loss, TrainBatches),
                              !.epoch_loss = 0,
                              !.events = Append(@, "train")])
    /\ UNCHANGED <<runs, args, logBase>>
    /\ UNCHANGED disk

\* ------------------------------------------------- evaluation, rank 0
\* with torch.no_grad(): test_epoch_loss = evaluate(model)
Evaluate(r) ==
    /\ proc[r].pc = "evaluate"
    /\ \E l \in EvalLosses :
          Set(r, [proc[r] EXCEPT !.pc = "gate",
                                 !.test_epoch_loss = l,
                                 !.events = Append(@, "evaluate"),
                                 !.io = @ \cup {"evaluate"}])
    /\ UNCHANGED <<runs, args, logBase>>
    /\ UNCHANGED disk

\* Mutant: an equal loss saves too.
ShouldSaveOrEqual(test_loss, test_epoch_loss) == test_loss >= test_epoch_loss

\* if test_loss > test_epoch_loss
ShouldSave(test_loss, test_epoch_loss) == test_loss > test_epoch_loss

\* Mutant: the checkpoint records the global global_epoch, not the epoch of the
\* save.
CheckpointDictGlobalEpoch(p, global_step, global_epoch) ==
    [state_dict |-> p.weights,
     optimizer |-> p.optimizer,
     scheduler |-> p.scheduler,
     global_step |-> global_step,
     global_epoch |-> p.global_epoch]

\* The dict save_checkpoint(model, optimizer, scheduler, global_step, global_epoch)
\* hands to torch.save.
CheckpointDict(p, global_step, global_epoch) ==
    [state_dict |-> p.weights,
     optimizer |-> p.optimizer,
     scheduler |-> p.scheduler,
     global_step |-> global_step,
     global_epoch |-> global_epoch]

\* What a checkpoint is meant to hold: the live values at the time of the save.
Snapshot(p) ==
    [state_dict |-> p.weights,
     optimizer |-> p.optimizer,
     scheduler |-> p.scheduler,
     global_step |-> p.global_step,
     global_epoch |-> p.epoch]

\* Mutant: the histories are written inside the if.
AfterGateSkipsHistories(saved) == IF saved THEN "synthesize" ELSE "log"

\* What follows the checkpoint gate: synthesize(model) inside the if, the
\* histories after it.
AfterGate(saved) == IF saved THEN "synthesize" ELSE "persist"

\* test_loss = test_epoch_loss; save_checkpoint(model, optimizer, scheduler,
\* global_step, epoch)
Gate(r) ==
    /\ proc[r].pc = "gate"
    /\ IF ShouldSave(proc[r].test_loss, proc[r].test_epoch_loss)
       THEN /\ ckptFiles' = Put(ckptFiles, SavePath(proc[r].global_step),
                                CheckpointDict(proc[r], proc[r].global_step, proc[r].epoch))
            /\ ckptSaved' = Put(ckptSaved, proc[r].global_step, Snapshot(proc[r]))
            /\ Set(r, [proc[r] EXCEPT
                          !.pc = AfterGate(TRUE),
                          !.test_loss = proc[r].test_epoch_loss,
                          !.events = Append(@, "save_checkpoint"),
                          !.io = @ \cup {"save_checkpoint"},
                          !.gates = Append(@, [eval |-> proc[r].test_epoch_loss,
                                               saved |-> TRUE])])
       ELSE /\ UNCHANGED <<ckptFiles, ckptSaved>>
            /\ Set(r, [proc[r] EXCEPT
                          !.pc = AfterGate(FALSE),
                          !.gates = Append(@, [eval |-> proc[r].test_epoch_loss,
                                               saved |-> FALSE])])
    /\ UNCHANGED <<runs, args, logBase, dirs, lossTrainFile, lossFile, logFile, wavFiles>>

\* with torch.no_grad(): synthesize(model) writes generate_{global_step}_0.wav
Synthesize(r) ==
    /\ proc[r].pc = "synthesize"
    /\ wavFiles' = wavFiles \cup {proc[r].global_step}
    /\ Set(r, [proc[r] EXCEPT !.pc = "persist",
                              !.events = Append(@, "synthesize"),
                              !.io = @ \cup {"synthesize"}])
    /\ UNCHANGED <<runs, args, logBase, dirs, ckptFiles, ckptSaved, lossTrainFile,
                   lossFile, logFile>>

\* list_train_loss.append(...); list_loss.append(...); np.save of both lists
Persist(r) ==
    LET list_train_loss == Append(proc[r].list_train_loss, proc[r].training_epoch_loss)
        list_loss == Append(proc[r].list_loss, proc[r].test_epoch_loss)
    IN  /\ proc[r].pc = "persist"
        /\ lossTrainFile' = FileOf(list_train_loss)
        /\ lossFile' = FileOf(list_loss)
        /\ Set(r, [proc[r] EXCEPT !.pc = "log",
                                  !.list_train_loss = list_train_loss,
                                  !.list_loss = list_loss,
                                  !.events = @ \o <<"np.save_train", "np.save">>,
                                  !.io = @ \cup {"np.save"}])
        /\ UNCHANGED <<runs, args, logBase, dirs, ckptFiles, ckptSaved, logFile, wavFiles>>

\* state = args plus training_loss, eval_loss, epoch; one json line appended
LogLine(p) ==
    [load_step |-> args.load_step,
     epochs |-> args.epochs,
     training_loss |-> p.training_epoch_loss,
     eval_loss |-> p.test_epoch_loss,
     epoch |-> p.epoch]

Log(r) ==
    /\ proc[r].pc = "log"
    /\ logFile' = Append(logFile, LogLine(proc[r]))
    /\ Set(r, [proc[r] EXCEPT !.pc = "loop",
                              !.events = Append(@, "log"),
                              !.io = @ \cup {"log"}])
    /\ UNCHANGED <<runs, args, logBase, dirs, ckptFiles, ckptSaved, lossTrainFile,
                   lossFile, wavFiles>>

\* ------------------------------------------------------ specifications
MaxLoadStep == MaxEpochs * TrainBatches

RankNext(r) ==
    \/ Setup(r)
    \/ Build(r)
    \/ Resume(r)
    \/ History(r)
    \/ LoopHead(r)
    \/ TrainForward(r)
    \/ TrainUpdate(r)
    \/ TrainEnd(r)
    \/ Evaluate(r)
    \/ Gate(r)
    \/ Synthesize(r)
    \/ Persist(r)
    \/ Log(r)

Next ==
    \/ \E load_step \in 0 .. MaxLoadStep, epochs \in 0 .. MaxEpochs : Launch(load_step, epochs)
    \/ \E r \in Ranks : RankNext(r)
    \/ AllReduce

\* A checkpoint of step 1, epoch 1 that this repository's single-device training
\* wrote: on the bare model (keys without prefix) or on a DataParallel model
\* (keys with prefix).
ForeignCheckpoint(keys) ==
    [state_dict |-> StateDict(keys, 1),
     optimizer |-> 1,
     scheduler |-> 1,
     global_step |-> 1,
     global_epoch |-> 1]

\* The folders as such a training left them.
InitLoad ==
    /\ runs = 0
    /\ args = [load_step |-> 0, epochs |-> 0]
    /\ proc = [r \in Ranks |-> [ProcStart EXCEPT !.pc = "idle"]]
    /\ dirs = OutputDirs
    /\ \E keys \in {ParamNames, WrappedKeys} :
          /\ ckptFiles = Put(EmptyMap, SavePath(1), ForeignCheckpoint(keys))
          /\ ckptSaved = Put(EmptyMap, 1, ForeignCheckpoint(keys))
    /\ lossTrainFile = FileOf(<<Mean(1, 1)>>)
    /\ \E l \in EvalLosses : lossFile = FileOf(<<l>>)
    /\ logFile = <<>>
    /\ logBase = 0
    /\ wavFiles = {}

\* The script run against folders that start empty.
Spec == Init /\ [][Next]_vars

\* The script run against empty folders; the processes of a launch are scheduled fairly and a collective completes
\* once every rank has entered it; nothing obliges anyone to launch again.
\* The script run against folders that hold a checkpoint of the single-device
\* training.
LoadSpec == InitLoad /\ [][Next]_vars

FairSpec == Spec /\ WF_vars(AllReduce) /\ \A r \in Ranks : WF_vars(RankNext(r))

\* ------------------------------------------------------------- claims
\* The positions of the epoch loop, and after it.
InLoop(p) ==
    p.pc \in {"loop", "batch", "backward", "update", "evaluate", "gate", "synthesize",
              "persist", "log", "done"}

\* An epoch of this run has been trained and everything after train() is over.
EpochDone(p) == p.pc \in {"loop", "done"} /\ p.trained # <<>>

Last(s) == s[Len(s)]

\* C1: a checkpoint saved at step S from epoch E and loaded with load_step = S
\* gives back what was saved.  Every file holds exactly the values its save was
\* called on, and a process that has just returned from load_checkpoint(S) has
\* the weights, optimizer state, scheduler state, global_step = S and
\* global_epoch of that save.
C1_CheckpointRoundTrip ==
    /\ \A step \in DOMAIN ckptSaved :
          /\ SavePath(step) \in DOMAIN ckptFiles
          /\ ckptFiles[SavePath(step)] = ckptSaved[step]
    /\ \A r \in Ranks :
          (args.load_step > 0 /\ proc[r].pc = "history") =>
             /\ args.load_step \in DOMAIN ckptSaved
             /\ proc[r].weights = ckptSaved[args.load_step].state_dict
             /\ proc[r].optimizer = ckptSaved[args.load_step].optimizer
             /\ proc[r].scheduler = ckptSaved[args.load_step].scheduler
             /\ proc[r].global_step = args.load_step
             /\ proc[r].global_step = ckptSaved[args.load_step].global_step
             /\ proc[r].global_epoch = ckptSaved[args.load_step].global_epoch

\* A process has loaded a checkpoint that an earlier run saved in its second
\* epoch, while a checkpoint of another step lies beside it.
C1_Witness ==
    \E r \in Ranks :
        /\ args.load_step > 0
        /\ proc[r].pc = "history"
        /\ proc[r].global_epoch = 2
        /\ proc[r].optimizer = 2 * TrainBatches
        /\ Cardinality(DOMAIN ckptFiles) >= 2

\* C2: a process with local_rank > 0 never evaluates, saves, synthesizes, writes
\* a history file, appends to the log or creates a directory: after train() it
\* is back at the head of the epoch loop.  Rank 0 creates the directories and,
\* once an epoch of it is over, has evaluated and written histories and log.
C2_OutputOnFirstRankOnly ==
    /\ \A r \in Ranks :
          r > 0 =>
             /\ proc[r].io = {}
             /\ proc[r].pc \notin {"evaluate", "gate", "synthesize", "persist", "log"}
             /\ IsPrefix(proc[r].events, <<"train">>)
    /\ proc[0].pc \notin {"idle", "setup"} =>
          ("makedirs" \in proc[0].io /\ dirs = OutputDirs)
    /\ EpochDone(proc[0]) => {"evaluate", "np.save", "log"} \subseteq proc[0].io

\* A rank above 0 has finished two epochs and rank 0 has saved and synthesized.
C2_Witness ==
    \E r \in Ranks :
        /\ r > 0
        /\ proc[r].pc = "done"
        /\ Len(proc[r].trained) >= 2
        /\ proc[0].pc = "done"
        /\ {"save_checkpoint", "synthesize"} \subseteq proc[0].io

EpochWithSave ==
    <<"train", "evaluate", "save_checkpoint", "synthesize", "np.save_train", "np.save", "log">>

EpochWithoutSave == <<"train", "evaluate", "np.save_train", "np.save", "log">>

\* C3: on rank 0 the calls of an epoch are made in the order train, evaluate,
\* (save_checkpoint, synthesize), the two history files, the log line; a sample
\* is synthesized only after a checkpoint was saved in the same epoch; and with
\* or without a checkpoint every finished epoch has added one entry to each
\* history (the epoch's own losses), written both files and one log line.
C3_EpochOrder ==
    LET p == proc[0]
    IN  /\ IsPrefix(p.events, EpochWithSave) \/ IsPrefix(p.events, EpochWithoutSave)
        /\ (InLoop(p) /\ ~EpochDone(p) /\ p.trained # <<>>) =>
              Len(logFile) = logBase + Len(p.trained) - 1
        /\ EpochDone(p) =>
              /\ p.events \in {EpochWithSave, EpochWithoutSave}
              /\ Len(p.list_loss) = p.histBase + Len(p.trained)
              /\ Len(p.list_train_loss) = Len(p.list_loss)
              /\ Last(p.list_loss) = p.test_epoch_loss
              /\ Last(p.list_train_loss) = p.training_epoch_loss
              /\ lossFile = FileOf(p.list_loss)
              /\ lossTrainFile = FileOf(p.list_train_loss)
              /\ Len(logFile) = logBase + Len(p.trained)
              /\ Last(logFile).epoch = p.epoch
              /\ Last(logFile).eval_loss = p.test_epoch_loss
              /\ Last(logFile).training_loss = p.training_epoch_loss

\* Rank 0 has finished a run whose last epoch saved no checkpoint and whose
\* first epoch saved one.
C3_Witness ==
    /\ proc[0].pc = "done"
    /\ proc[0].events = EpochWithoutSave
    /\ Len(proc[0].gates) >= 2
    /\ proc[0].gates[1].saved

\* The epochs first .. epochs, in order.
EpochsFrom(first, epochs) ==
    [i \in 1 .. (IF epochs >= first THEN epochs - first + 1 ELSE 0) |-> first + i - 1]

\* C4: a run resumed from a checkpoint of step S and epoch E enters the epoch
\* loop with global_step = S, trains the epochs E+1 .. args.epochs in order
\* (none when E >= args.epochs) and begins its first batch from global_step = S;
\* a fresh run trains 1 .. args.epochs from global_step = 0.
C4_Resumption ==
    \A r \in Ranks :
        LET p == proc[r]
            E == IF args.load_step = 0 THEN 0 ELSE ckptSaved[args.load_step].global_epoch
        IN  InLoop(p) =>
               /\ p.global_epoch = E
               /\ IsPrefix(p.trained, EpochsFrom(E + 1, args.epochs))
               /\ p.pc = "done" => p.trained = EpochsFrom(E + 1, args.epochs)
               /\ (p.trained = <<>> \/ (Len(p.trained) = 1 /\ p.pc = "batch" /\ p.batch_idx = 0))
                     => p.global_step = args.load_step
               /\ \A i \in 1 .. Len(p.trained) : p.trained[i] > E

\* A run resumed after epoch 1 has trained the epochs 2 and 3.
C4_Witness ==
    \E r \in Ranks :
        /\ args.load_step > 0
        /\ proc[r].pc = "done"
        /\ proc[r].global_epoch = 1
        /\ proc[r].trained = <<2, 3>>

\* The least of test_loss's initial value and the evaluation losses of the
\* first n epochs of this run.
BestUpTo(p, n) == MinOf({p.test_loss0} \cup { p.gates[j].eval : j \in 1 .. n })

\* C6: on rank 0 an epoch saves a checkpoint exactly when its evaluation loss is
\* strictly below the best so far; test_loss is the least of its initial value
\* and this run's evaluation losses; the initial value is 100 on a fresh start
\* and the least of the loaded history cut to global_epoch on resume; the losses
\* of successive saves strictly decrease; a fresh run that never evaluates
\* below 100 saves nothing.
C6_BestLossGate ==
    LET p == proc[0]
    IN  InLoop(p) =>
           /\ \A i \in 1 .. Len(p.gates) :
                 p.gates[i].saved <=> p.gates[i].eval < BestUpTo(p, i - 1)
           /\ p.pc \notin {"evaluate", "gate"} => p.test_loss = BestUpTo(p, Len(p.gates))
           /\ args.load_step = 0 => p.test_loss0 = InitTestLoss
           /\ (args.load_step > 0 /\ p.trained = <<>>) =>
                 p.test_loss = MinOf(Range(Truncate(lossFile.data, p.global_epoch)))
           /\ \A i, j \in 1 .. Len(p.gates) :
                 (i < j /\ p.gates[i].saved /\ p.gates[j].saved) =>
                     p.gates[j].eval < p.gates[i].eval
           /\ (args.load_step = 0 /\ \A i \in 1 .. Len(p.gates) : p.gates[i].eval >= InitTestLoss)
                 => ("save_checkpoint" \notin p.io /\ \A i \in 1 .. Len(p.gates) : ~p.gates[i].saved)
           /\ (Len(p.gates) > 0 /\ p.pc \in {"synthesize", "persist", "log", "loop", "done"}) =>
                 (Last(p.gates).saved <=> "save_checkpoint" \in Range(p.events))

\* A run has saved in two epochs and then met an evaluation loss equal to the
\* best one, which saved nothing.
C6_Witness ==
    LET p == proc[0]
    IN  /\ Len(p.gates) = 3
        /\ p.gates[1].saved
        /\ p.gates[2].saved
        /\ ~p.gates[3].saved
        /\ p.gates[3].eval = p.gates[2].eval

\* The batches a process has begun in this run.
BatchesBegun(p) ==
    IF p.trained = <<>> THEN 0
    ELSE (Len(p.trained) - 1) * TrainBatches + p.batch_idx
         + (IF p.pc \in {"backward", "update"} THEN 1 ELSE 0)

\* C7: global_step and the scheduler's step count advance by one per training
\* batch and by nothing else, so a fresh run has global_step = k * TrainBatches
\* after k epochs; and the file checkpoint_step{N} holds global_step = N and the
\* epoch in which it was saved.
C7_StepCounting ==
    /\ \A r \in Ranks :
          LET p == proc[r]
          IN  InLoop(p) =>
                 /\ p.global_step = args.load_step + BatchesBegun(p)
                 /\ p.scheduler = p.global_step
                 /\ (args.load_step = 0 /\ (EpochDone(p) \/ p.pc \in
                        {"evaluate", "gate", "synthesize", "persist", "log"}))
                       => p.global_step = Len(p.trained) * TrainBatches
    /\ \A step \in 0 .. MaxLoadStep :
          SavePath(step) \in DOMAIN ckptFiles =>
             /\ ckptFiles[SavePath(step)].global_step = step
             /\ step \in DOMAIN ckptSaved
             /\ ckptFiles[SavePath(step)].global_epoch = ckptSaved[step].global_epoch

\* A fresh run has finished three epochs and a checkpoint of its second epoch
\* is on disk.
C7_Witness ==
    /\ args.load_step = 0
    /\ proc[0].pc = "done"
    /\ proc[0].global_step = 3 * TrainBatches
    /\ SavePath(2 * TrainBatches) \in DOMAIN ckptFiles
    /\ ckptFiles[SavePath(2 * TrainBatches)].global_epoch = 2

BatchOps ==
    <<"scheduler.step", "zero_grad", "forward", "backward", "clip_grad_norm_", "optimizer.step">>

\* C8: in every training iteration the gradients are zeroed, then the loss is
\* back-propagated, then the gradient norm is clipped, then the optimizer steps:
\* the optimizer steps once per batch, on the clipped gradients of that batch.
C8_IterationOrder ==
    \A r \in Ranks :
        LET p == proc[r]
        IN  InLoop(p) =>
               /\ IsPrefix(p.ops, BatchOps)
               /\ p.optimizer = p.global_step - (IF p.pc \in {"backward", "update"} THEN 1 ELSE 0)
               /\ (p.trained # <<>> /\ p.pc \notin {"backward", "update"}
                      /\ ~(p.pc = "batch" /\ p.batch_idx = 0)) =>
                     /\ p.ops = BatchOps
                     /\ p.stepped = [batch |-> p.global_step, stage |-> "clipped"]

\* A process has finished the second batch of an epoch.
C8_Witness ==
    \E r \in Ranks :
        /\ proc[r].pc = "batch"
        /\ proc[r].batch_idx = 2
        /\ proc[r].ops = BatchOps

\* C5: load_checkpoint loads a checkpoint whose keys all carry "module." and one
\* whose keys carry none: in both cases the call returns with the checkpoint's
\* weights in the wrapped model, and the keys the fallback hands to the second
\* load_state_dict are the checkpoint's keys without their "module." prefix.
C5_GeneralizedLoad ==
    \A r \in Ranks :
        (args.load_step > 0 /\ proc[r].pc \in {"history", "crashed"}) =>
            LET sd == ckptFiles[LoadPath(args.load_step)].state_dict
            IN  /\ proc[r].pc = "history"
                /\ \A k \in ParamNames :
                      proc[r].weights[ModulePrefix \o k] =
                          (IF k \in DOMAIN sd THEN sd[k] ELSE sd[ModulePrefix \o k])
                /\ proc[r].fellBack =>
                      /\ \A k \in DOMAIN sd : IsPrefix(ModulePrefix, k)
                      /\ proc[r].fallbackKeys = { StripKey(k) : k \in DOMAIN sd }

\* Backward passes a process has come out of, and has entered, in this run.
PassesLeft(p) ==
    IF InLoop(p) THEN BatchesBegun(p) - (IF p.pc = "backward" THEN 1 ELSE 0) ELSE 0

PassesEntered(p) == IF InLoop(p) THEN BatchesBegun(p) ELSE 0

\* train() has returned for the current epoch.
AfterTrain(p) ==
    /\ p.trained # <<>>
    /\ p.pc \in {"loop", "evaluate", "gate", "synthesize", "persist", "log", "done"}

LockStep ==
    \A r, s \in Ranks :
        /\ PassesLeft(proc[r]) <= PassesEntered(proc[s])
        /\ IsPrefix(proc[r].trained, proc[s].trained) \/ IsPrefix(proc[s].trained, proc[r].trained)
        /\ AfterTrain(proc[r]) => proc[r].batch_idx = TrainBatches
        /\ (AfterTrain(proc[r]) /\ AfterTrain(proc[s]) /\ proc[r].epoch = proc[s].epoch) =>
              proc[r].global_step = proc[s].global_step
        /\ (proc[r].pc = "done" /\ proc[s].pc = "done") =>
              (proc[r].trained = proc[s].trained /\ proc[r].global_step = proc[s].global_step)
        /\ (InLoop(proc[r]) /\ r > 0 /\ (proc[r].batch_idx >= 1 \/ proc[r].pc = "update")) =>
              (s = 0 => (InLoop(proc[s]) /\ proc[s].epoch >= proc[r].epoch))

\* C9: the ranks move in lock-step.  No rank comes out of a backward pass that
\* another rank has not entered; all ranks train the same epochs with the same
\* number of batches and hold the same global_step when train() has returned; no
\* rank above 0 completes a batch of an epoch that rank 0 has not begun, which
\* rank 0 does only after the evaluation, histories and log of the epoch before;
\* and every process that is started comes to the end of epoch args.epochs.
C9_LockStepOfRanks ==
    /\ []LockStep
    /\ \A r \in Ranks :
          (proc[r].pc = "setup") ~>
              (proc[r].pc = "done"
                 /\ (args.epochs > proc[r].global_epoch => Last(proc[r].trained) = args.epochs))

\* A rank above 0 waits in the first backward pass of epoch 2 while rank 0
\* writes the histories of epoch 1.
C9_Witness ==
    \E r \in Ranks :
        /\ r > 0
        /\ proc[r].pc = "backward"
        /\ proc[r].epoch = 2
        /\ proc[0].pc = "persist"
        /\ proc[0].epoch = 1

====
